---- MODULE Spec2Model ----
(***************************************************************************)
(* Model of the assistant bot of src/main.py: the field validators (Phone, *)
(* Birthday), Record, AddressBook, the command handlers wrapped by         *)
(* input_error, the pickle snapshot and the read loop of main().           *)
(*                                                                         *)
(* Text is modelled as a sequence of characters; a character is a          *)
(* one-element label ("0", "a", ".", or "U+0661" for a non-ASCII decimal    *)
(* digit).  A datetime is a record [year, month, day, second] where second  *)
(* is the time of day in seconds.                                          *)
(*                                                                         *)
(* book      the AddressBook of the running process, in dict order         *)
(* snapshot  the file addressbook.pkl                                      *)
(* pc        init, running, closed (after close/exit) or crashed           *)
(* cmd       the line the loop read last (NoLine right after start-up)     *)
(* before    the book as it was when that line was read                    *)
(* today     the clock reading of that turn                                *)
(* response  what the turn printed                                         *)
(* held      history: the book at the latest close/exit command            *)
(* n         the number of lines read so far                               *)
(***************************************************************************)
EXTENDS Integers, Sequences, FiniteSets, TLC

VARIABLES book, snapshot, pc, cmd, before, today, response, held, n

vars == <<book, snapshot, pc, cmd, before, today, response, held, n>>

\* ------------------------------------------------------------------ bounds

\* total number of input lines read over all sessions
MaxCmds == 4

\* ------------------------------------------------------------- characters

AsciiDigits == {"0", "1", "2", "3", "4", "5", "6", "7", "8", "9"}

\* decimal digits outside ASCII (Unicode category Nd), ARABIC-INDIC ONE..THREE
UnicodeDigits == {"U+0661", "U+0662", "U+0663"}

\* the characters the regular-expression class \d matches in a str pattern
IsDigit(c) == c \in AsciiDigits \cup UnicodeDigits

\* int() of one decimal digit
DigitVal(c) ==
    CASE c = "0" -> 0 [] c = "1" -> 1 [] c = "2" -> 2 [] c = "3" -> 3
      [] c = "4" -> 4 [] c = "5" -> 5 [] c = "6" -> 6 [] c = "7" -> 7
      [] c = "8" -> 8 [] c = "9" -> 9
      [] c = "U+0661" -> 1 [] c = "U+0662" -> 2 [] c = "U+0663" -> 3
      [] OTHER -> 0

DigitChar(d) ==
    CASE d = 0 -> "0" [] d = 1 -> "1" [] d = 2 -> "2" [] d = 3 -> "3"
      [] d = 4 -> "4" [] d = 5 -> "5" [] d = 6 -> "6" [] d = 7 -> "7"
      [] d = 8 -> "8" [] OTHER -> "9"

RECURSIVE IntOf(_)
\* int() of a text of decimal digits
IntOf(s) ==
    IF s = <<>> THEN 0
    ELSE 10 * IntOf(SubSeq(s, 1, Len(s) - 1)) + DigitVal(s[Len(s)])

RECURSIVE Decimal(_)
\* the decimal digits of a positive integer, no padding
Decimal(k) ==
    IF k < 10 THEN <<DigitChar(k)>>
    ELSE Decimal(k \div 10) \o <<DigitChar(k % 10)>>

\* a number formatted on two digits, zero padded (%d and %m of strftime)
TwoDigits(k) == <<DigitChar(k \div 10), DigitChar(k % 10)>>

\* ------------------------------------------------------------------- Phone

\* the 10 of the pattern ^\d{10}$
PhoneLen == 10

PhoneMsg == "Phone number must be 10 digits"

\* re.match(r'^\d{10}$', value): ten \d characters, then the end of the
\* text or a single newline that ends the text
PhoneMatches(value) ==
    /\ Len(value) \in {PhoneLen, PhoneLen + 1}
    /\ \A i \in 1..PhoneLen : IsDigit(value[i])
    /\ Len(value) = PhoneLen + 1 => value[PhoneLen + 1] = "\n"

\* Phone.validate: the value itself, or ValueError(PhoneMsg)
PhoneValidate(value) ==
    IF PhoneMatches(value) THEN [ok |-> TRUE, value |-> value]
    ELSE [ok |-> FALSE, value |-> <<>>]

\* ---------------------------------------------------------------- datetime

IsLeap(y) == y % 4 = 0 /\ (y % 100 # 0 \/ y % 400 = 0)

DaysInMonth(y, m) ==
    CASE m = 2 -> IF IsLeap(y) THEN 29 ELSE 28
      [] m \in {4, 6, 9, 11} -> 30
      [] OTHER -> 31

DaysBeforeYear(y) ==
    (y - 1) * 365 + (y - 1) \div 4 - (y - 1) \div 100 + (y - 1) \div 400

RECURSIVE DaysBeforeMonth(_, _)
DaysBeforeMonth(y, m) ==
    IF m = 1 THEN 0 ELSE DaysBeforeMonth(y, m - 1) + DaysInMonth(y, m - 1)

\* the proleptic Gregorian ordinal of a date
Ordinal(d) == DaysBeforeYear(d.year) + DaysBeforeMonth(d.year, d.month) + d.day

\* the datetime constructor's range check
ValidDate(y, m, d) ==
    /\ y \in 1..9999
    /\ m \in 1..12
    /\ d \in 1..DaysInMonth(y, m)

NoDate == [year |-> 0, month |-> 0, day |-> 0, second |-> 0]

SecondsPerDay == 86400

\* (a - b).days: the difference is normalised to 0 <= seconds < 86400
DaysBetween(a, b) ==
    (Ordinal(a) - Ordinal(b)) + ((a.second - b.second) \div SecondsPerDay)

\* datetime.replace(year=y): ValueError when the date does not exist in y
ReplaceYear(d, y) ==
    IF ValidDate(y, d.month, d.day)
    THEN [ok |-> TRUE, value |-> [d EXCEPT !.year = y]]
    ELSE [ok |-> FALSE, value |-> NoDate]

\* ---------------------------------------------------------------- Birthday

DateMsg == "Invalid date format. Use DD.MM.YYYY"

RECURSIVE IndexOf(_, _, _)
\* the first position >= i of character c in s, 0 when there is none
IndexOf(s, c, i) ==
    IF i > Len(s) THEN 0
    ELSE IF s[i] = c THEN i ELSE IndexOf(s, c, i + 1)

\* the group (?P<d>3[0-1]|[1-2]\d|0[1-9]|[1-9]| [1-9]) of _strptime
DayGroup(t) ==
    \/ /\ Len(t) = 2
       /\ \/ t[1] = "3" /\ t[2] \in {"0", "1"}
          \/ t[1] \in {"1", "2"} /\ IsDigit(t[2])
          \/ t[1] = "0" /\ t[2] \in AsciiDigits \ {"0"}
          \/ t[1] = " " /\ t[2] \in AsciiDigits \ {"0"}
    \/ Len(t) = 1 /\ t[1] \in AsciiDigits \ {"0"}

\* the group (?P<m>1[0-2]|0[1-9]|[1-9]) of _strptime
MonthGroup(t) ==
    \/ /\ Len(t) = 2
       /\ \/ t[1] = "1" /\ t[2] \in {"0", "1", "2"}
          \/ t[1] = "0" /\ t[2] \in AsciiDigits \ {"0"}
    \/ Len(t) = 1 /\ t[1] \in AsciiDigits \ {"0"}

\* the group (?P<Y>\d\d\d\d) of _strptime
YearGroup(t) == Len(t) = 4 /\ \A i \in 1..4 : IsDigit(t[i])

StripSpace(t) == IF t # <<>> /\ t[1] = " " THEN Tail(t) ELSE t

\* datetime.strptime(value, '%d.%m.%Y'): day, month and year groups
\* separated by dots, the whole text consumed, a date that exists;
\* midnight of that date, or ValueError
Strptime(value) ==
    LET i1 == IndexOf(value, ".", 1)
        i2 == IF i1 = 0 THEN 0 ELSE IndexOf(value, ".", i1 + 1)
        dd == SubSeq(value, 1, i1 - 1)
        mm == SubSeq(value, i1 + 1, i2 - 1)
        yy == SubSeq(value, i2 + 1, Len(value))
    IN  IF /\ i1 > 0 /\ i2 > 0
           /\ DayGroup(dd) /\ MonthGroup(mm) /\ YearGroup(yy)
           /\ ValidDate(IntOf(yy), IntOf(mm), IntOf(StripSpace(dd)))
        THEN [ok |-> TRUE,
              value |-> [year |-> IntOf(yy), month |-> IntOf(mm),
                         day |-> IntOf(StripSpace(dd)), second |-> 0]]
        ELSE [ok |-> FALSE, value |-> NoDate]

\* Birthday.validate: the parsed datetime, or ValueError(DateMsg)
BirthdayValidate(value) == Strptime(value)

\* value.strftime('%d.%m.%Y')
Strftime(d) ==
    TwoDigits(d.day) \o <<".">> \o TwoDigits(d.month) \o <<".">> \o Decimal(d.year)


\* ------------------------------------------------------------------ Record

\* Record.__init__: a name, no phones, no birthday (None is NoDate)
Record(name) == [name |-> name, phones |-> <<>>, birthday |-> NoDate]

HasBirthday(record) == record.birthday # NoDate

\* Record.add_phone: append Phone(phone); the ValueError of Phone leaves
\* the record as it was
add_phone(record, phone) ==
    LET v == PhoneValidate(phone)
    IN  IF v.ok
        THEN [ok |-> TRUE, record |-> [record EXCEPT !.phones = Append(@, v.value)]]
        ELSE [ok |-> FALSE, record |-> record]

RECURSIVE FirstPhone(_, _, _)
\* the position of the first phone of the list equal to phone, 0 if none
FirstPhone(phones, phone, i) ==
    IF i > Len(phones) THEN 0
    ELSE IF phones[i] = phone THEN i ELSE FirstPhone(phones, phone, i + 1)

\* edit_phone replacing every phone equal to old_phone
edit_phone_all(record, old_phone, new_phone) ==
    LET i == FirstPhone(record.phones, old_phone, 1)
        v == PhoneValidate(new_phone)
    IN  IF i = 0 THEN [ok |-> TRUE, found |-> FALSE, record |-> record]
        ELSE IF ~v.ok THEN [ok |-> FALSE, found |-> FALSE, record |-> record]
        ELSE [ok |-> TRUE, found |-> TRUE,
              record |-> [record EXCEPT !.phones =
                            [k \in 1..Len(@) |->
                                IF @[k] = old_phone THEN v.value ELSE @[k]]]]

\* Record.edit_phone: the first phone equal to old_phone takes the value
\* Phone(new_phone).value; new_phone is validated only once a match is found
edit_phone(record, old_phone, new_phone) ==
    LET i == FirstPhone(record.phones, old_phone, 1)
        v == PhoneValidate(new_phone)
    IN  IF i = 0 THEN [ok |-> TRUE, found |-> FALSE, record |-> record]
        ELSE IF ~v.ok THEN [ok |-> FALSE, found |-> FALSE, record |-> record]
        ELSE [ok |-> TRUE, found |-> TRUE,
              record |-> [record EXCEPT !.phones[i] = v.value]]

\* add_birthday dropping the previous birthday before it validates
add_birthday_clear(record, birthday) ==
    LET v == BirthdayValidate(birthday)
    IN  IF v.ok
        THEN [ok |-> TRUE, record |-> [record EXCEPT !.birthday = v.value]]
        ELSE [ok |-> FALSE, record |-> [record EXCEPT !.birthday = NoDate]]

\* Record.add_birthday: assign Birthday(birthday); the ValueError of
\* Birthday leaves the record as it was
add_birthday(record, birthday) ==
    LET v == BirthdayValidate(birthday)
    IN  IF v.ok
        THEN [ok |-> TRUE, record |-> [record EXCEPT !.birthday = v.value]]
        ELSE [ok |-> FALSE, record |-> record]

RECURSIVE JoinComma(_)
\* ', '.join(phones)
JoinComma(phones) ==
    IF phones = <<>> THEN <<>>
    ELSE IF Len(phones) = 1 THEN phones[1]
    ELSE phones[1] \o <<",", " ">> \o JoinComma(Tail(phones))

NotAvailable == <<"N", "/", "A">>

\* Record.__str__: the three values the line is built from
RecordStr(record) ==
    [name |-> record.name,
     phones |-> JoinComma(record.phones),
     birthday |-> IF HasBirthday(record) THEN Strftime(record.birthday)
                  ELSE NotAvailable]

\* ------------------------------------------------------------- AddressBook

\* the book is the dict's items in insertion order

RECURSIVE find(_, _)
\* AddressBook.find: the position of the record stored under name, 0 for None
find(data, name) ==
    IF data = <<>> THEN 0
    ELSE IF data[Len(data)].name = name THEN Len(data)
    ELSE find(SubSeq(data, 1, Len(data) - 1), name)

\* AddressBook.add_record: data[record.name.value] = record
add_record(data, record) ==
    LET i == find(data, record.name)
    IN  IF i = 0 THEN Append(data, record) ELSE [data EXCEPT ![i] = record]

RECURSIVE get_upcoming_birthdays(_, _)
\* AddressBook.get_upcoming_birthdays with today = datetime.today(): the
\* records in dict order whose birthday moved to today's year is 0..7 days
\* after today; the ValueError of replace() ends the scan
get_upcoming_birthdays(data, now) ==
    IF data = <<>> THEN [ok |-> TRUE, records |-> <<>>]
    ELSE LET record == Head(data)
             birthday_this_year == ReplaceYear(record.birthday, now.year)
             days_until_birthday == DaysBetween(birthday_this_year.value, now)
             rest == get_upcoming_birthdays(Tail(data), now)
         IN  IF ~HasBirthday(record) THEN rest
             ELSE IF ~birthday_this_year.ok THEN [ok |-> FALSE, records |-> <<>>]
             ELSE IF ~rest.ok THEN rest
             ELSE IF 0 <= days_until_birthday /\ days_until_birthday <= 7
                  THEN [ok |-> TRUE, records |-> <<record>> \o rest.records]
                  ELSE rest

\* ------------------------------------------------------------ input_error

NoRaise == "none"

\* what a handler returns or raises: the exception class and its message,
\* or the value returned; kind tells a sentence from a joined text and from
\* a list of described records
Returns(text, data) ==
    [raised |-> NoRaise, kind |-> "message", text |-> text, chars |-> <<>>,
     records |-> <<>>, book |-> data]

ReturnsChars(chars, data) ==
    [raised |-> NoRaise, kind |-> "chars", text |-> "", chars |-> chars,
     records |-> <<>>, book |-> data]

ReturnsRecords(records, data) ==
    [raised |-> NoRaise, kind |-> "records", text |-> "", chars |-> <<>>,
     records |-> records, book |-> data]

Raises(exception, text, data) ==
    [raised |-> exception, kind |-> "message", text |-> text, chars |-> <<>>,
     records |-> <<>>, book |-> data]

NotFoundMsg == "Contact not found."

ArgumentsMsg == "Invalid command. Please provide correct arguments."

\* input_error: KeyError, ValueError and IndexError become the returned text
input_error(result) ==
    CASE result.raised = "KeyError" -> [result EXCEPT !.text = NotFoundMsg]
      [] result.raised = "ValueError" -> result
      [] result.raised = "IndexError" -> [result EXCEPT !.text = ArgumentsMsg]
      [] OTHER -> result

\* ---------------------------------------------------------------- handlers

\* a handler works on the Record object the book holds, so whatever a Record
\* method did to it before raising stays in the book

AddUsage == "Invalid command. Usage: add [name] [phone]"

ChangeUsage == "Invalid command. Usage: change [name] [old_phone] [new_phone]"

PhoneUsage == "Invalid command. Usage: phone [name]"

BirthdayUsage == "Invalid command. Usage: add-birthday [name] [birthday]"

ShowBirthdayUsage == "Invalid command. Usage: show-birthday [name]"

\* add_contact storing a new record on every call
add_contact_overwrite(args, data) ==
    IF Len(args) # 2 THEN Raises("ValueError", AddUsage, data)
    ELSE LET new == add_phone(Record(args[1]), args[2])
         IN  IF new.ok
             THEN Returns("Contact added.", add_record(data, new.record))
             ELSE Raises("ValueError", PhoneMsg, data)

\* add_contact: a name already in the book gets the phone appended to its
\* record; a new name gets a new record, stored only once the phone is valid
add_contact(args, data) ==
    IF Len(args) # 2 THEN Raises("ValueError", AddUsage, data)
    ELSE LET name == args[1]
             phone == args[2]
             i == find(data, name)
             old == add_phone(data[i], phone)
             new == add_phone(Record(name), phone)
         IN  IF i # 0
             THEN IF old.ok
                  THEN Returns("Contact added.", [data EXCEPT ![i] = old.record])
                  ELSE Raises("ValueError", PhoneMsg, [data EXCEPT ![i] = old.record])
             ELSE IF new.ok
                  THEN Returns("Contact added.", add_record(data, new.record))
                  ELSE Raises("ValueError", PhoneMsg, data)

change_contact(args, data) ==
    IF Len(args) # 3 THEN Raises("ValueError", ChangeUsage, data)
    ELSE LET name == args[1]
             old_phone == args[2]
             new_phone == args[3]
             i == find(data, name)
             edit == edit_phone(data[i], old_phone, new_phone)
         IN  IF i = 0 THEN Raises("KeyError", "Contact not found.", data)
             ELSE IF ~edit.ok
                  THEN Raises("ValueError", PhoneMsg, [data EXCEPT ![i] = edit.record])
             ELSE IF edit.found
                  THEN Returns("Contact updated.", [data EXCEPT ![i] = edit.record])
                  ELSE Returns("Phone number not found.", [data EXCEPT ![i] = edit.record])

show_phone(args, data) ==
    IF Len(args) # 1 THEN Raises("ValueError", PhoneUsage, data)
    ELSE LET i == find(data, args[1])
         IN  IF i = 0 THEN Raises("KeyError", "Contact not found.", data)
             ELSE ReturnsChars(JoinComma(data[i].phones), data)

show_all(data) ==
    IF data = <<>> THEN Returns("No contacts found.", data)
    ELSE ReturnsRecords([i \in 1..Len(data) |-> RecordStr(data[i])], data)

add_birthday_cmd(args, data) ==
    IF Len(args) # 2 THEN Raises("ValueError", BirthdayUsage, data)
    ELSE LET i == find(data, args[1])
             set == add_birthday(data[i], args[2])
         IN  IF i = 0 THEN Raises("KeyError", "Contact not found.", data)
             ELSE IF set.ok
                  THEN Returns("Birthday added.", [data EXCEPT ![i] = set.record])
                  ELSE Raises("ValueError", DateMsg, [data EXCEPT ![i] = set.record])

show_birthday(args, data) ==
    IF Len(args) # 1 THEN Raises("ValueError", ShowBirthdayUsage, data)
    ELSE LET i == find(data, args[1])
         IN  IF i = 0 THEN Raises("KeyError", "Contact not found.", data)
             ELSE IF HasBirthday(data[i])
                  THEN ReturnsChars(Strftime(data[i].birthday), data)
                  ELSE Returns("Birthday not set.", data)

ReplaceMsg == "day is out of range for month"

birthdays(args, data, now) ==
    LET upcoming_birthdays == get_upcoming_birthdays(data, now)
    IN  IF ~upcoming_birthdays.ok THEN Raises("ValueError", ReplaceMsg, data)
        ELSE IF upcoming_birthdays.records = <<>>
             THEN Returns("No upcoming birthdays.", data)
             ELSE ReturnsRecords(
                    [i \in 1..Len(upcoming_birthdays.records) |->
                        RecordStr(upcoming_birthdays.records[i])], data)

\* ------------------------------------------------------------------ pickle

NoFile == [exists |-> FALSE, items |-> <<>>]

\* datetime.__reduce__: the year on two bytes, then month, day and time
DumpDate(d) ==
    <<d.year \div 256, d.year % 256, d.month, d.day,
      d.second \div 3600, (d.second % 3600) \div 60, d.second % 60>>

\* the year read from its low byte only
LoadDate_lowbyte(b) ==
    [year |-> b[2], month |-> b[3], day |-> b[4],
     second |-> b[5] * 3600 + b[6] * 60 + b[7]]

LoadDate(b) ==
    [year |-> b[1] * 256 + b[2], month |-> b[3], day |-> b[4],
     second |-> b[5] * 3600 + b[6] * 60 + b[7]]

\* pickle.dump(book, f): each record's name, phone values and birthday
\* (None, or the datetime's bytes), in dict order
save_data(data) ==
    [exists |-> TRUE,
     items |-> [i \in 1..Len(data) |->
                 [name |-> data[i].name,
                  phones |-> data[i].phones,
                  birthday |-> IF HasBirthday(data[i])
                               THEN DumpDate(data[i].birthday) ELSE <<>>]]]

\* pickle.load(f), or a new AddressBook when the file is not found
load_data(file) ==
    IF ~file.exists THEN <<>>
    ELSE [i \in 1..Len(file.items) |->
            [name |-> file.items[i].name,
             phones |-> file.items[i].phones,
             birthday |-> IF file.items[i].birthday = <<>> THEN NoDate
                          ELSE LoadDate(file.items[i].birthday)]]

\* ------------------------------------------------------------------ inputs

alice == <<"a", "l", "i", "c", "e">>

bob == <<"b", "o", "b">>

Names == {alice, bob}

Phone1 == <<"0", "1", "2", "3", "4", "5", "6", "7", "8", "9">>

Phone2 == <<"1", "1", "1", "2", "2", "2", "3", "3", "3", "3">>

\* nine digits
PhoneShort == <<"0", "1", "2", "3", "4", "5", "6", "7", "8">>

\* ten decimal digits that are not ASCII
PhoneArabic ==
    <<"U+0661", "U+0662", "U+0663", "U+0661", "U+0662", "U+0663", "U+0661",
      "U+0662", "U+0663", "U+0661">>

PhoneTexts == {Phone1, Phone2, PhoneShort, PhoneArabic}

\* 25.06.1990
DateJune == <<"2", "5", ".", "0", "6", ".", "1", "9", "9", "0">>

\* 1.1.2000
DateShort == <<"1", ".", "1", ".", "2", "0", "0", "0">>

\* 29.02.2000
DateLeap == <<"2", "9", ".", "0", "2", ".", "2", "0", "0", "0">>

\* 29.02.2001, not a calendar date
DateNoLeap == <<"2", "9", ".", "0", "2", ".", "2", "0", "0", "1">>

DateTexts == {DateJune, DateShort, DateLeap, DateNoLeap}

Noon == 43200

\* the values datetime.today() takes: around 25 June 2024, late December
\* 2024, and late February of a leap and of a common year, at midnight and
\* at noon
Todays ==
    { [year |-> 2024, month |-> 6, day |-> d, second |-> s] :
        d \in {17, 18, 25, 26}, s \in {0, Noon} }
    \cup
    { [year |-> y, month |-> 2, day |-> 25, second |-> s] :
        y \in {2023, 2024}, s \in {0, Noon} }
    \cup
    { [year |-> 2024, month |-> 12, day |-> 28, second |-> Noon] }

AddArgs == { <<nm, p>> : nm \in Names, p \in PhoneTexts } \cup { <<alice>> }

ChangeArgs ==
    { <<nm, o, p>> : nm \in Names, o \in {Phone1, Phone2}, p \in PhoneTexts }
    \cup { <<alice, Phone1>> }

NameArgs == { <<nm>> : nm \in Names } \cup { <<>> }

BirthdayArgs == { <<nm, d>> : nm \in Names, d \in DateTexts } \cup { <<alice>> }

\* -------------------------------------------------------------------- main

NoLine == [command |-> "-", args |-> <<>>]

NoResponse ==
    [raised |-> NoRaise, kind |-> "none", text |-> "", chars |-> <<>>,
     records |-> <<>>]

Printed(r) ==
    [raised |-> r.raised, kind |-> r.kind, text |-> r.text, chars |-> r.chars,
     records |-> r.records]

\* str.lower() on the command words used here
Lower(word) ==
    CASE word = "EXIT" -> "exit" [] word = "Hello" -> "hello" [] OTHER -> word

\* parse_input: cmd, *args = user_input.split() raises ValueError on a line
\* without any word (the empty command stands for such a line)
parse_input(user_input) ==
    IF user_input.command = ""
    THEN [ok |-> FALSE, command |-> "", args |-> <<>>]
    ELSE [ok |-> TRUE, command |-> Lower(user_input.command),
          args |-> user_input.args]

\* the elif chain of main for every command but close and exit
Dispatch(command, args, data, now) ==
    CASE command = "hello" -> Returns("How can I help you?", data)
      [] command = "add" -> input_error(add_contact(args, data))
      [] command = "change" -> input_error(change_contact(args, data))
      [] command = "phone" -> input_error(show_phone(args, data))
      [] command = "all" -> input_error(show_all(data))
      [] command = "add-birthday" -> input_error(add_birthday_cmd(args, data))
      [] command = "show-birthday" -> input_error(show_birthday(args, data))
      [] command = "birthdays" -> input_error(birthdays(args, data, now))
      [] OTHER -> Returns("Invalid command.", data)

\* the loop of main waits at input(); the number of lines read is bounded
Prompt == pc = "running" /\ n < MaxCmds

\* one turn of the while loop of main on the line user_input, the clock
\* reading now
Turn(user_input, now) ==
    /\ n' = n + 1
    /\ cmd' = user_input
    /\ before' = book
    /\ today' = now
    /\ LET p == parse_input(user_input)
           r == Dispatch(p.command, p.args, book, now)
       IN  IF ~p.ok
           THEN /\ pc' = "crashed"
                /\ response' = [NoResponse EXCEPT !.raised = "ValueError"]
                /\ UNCHANGED <<book, snapshot, held>>
           ELSE IF p.command \in {"close", "exit"}
           THEN /\ pc' = "closed"
                /\ response' = Printed(Returns("Good bye!", book))
                /\ snapshot' = save_data(book)
                /\ held' = book
                /\ UNCHANGED book
           ELSE /\ pc' = "running"
                /\ response' = Printed(r)
                /\ book' = r.book
                /\ UNCHANGED <<snapshot, held>>

Init ==
    /\ book = <<>>
    /\ snapshot = NoFile
    /\ pc = "init"
    /\ cmd = NoLine
    /\ before = <<>>
    /\ today = NoDate
    /\ response = NoResponse
    /\ held = <<>>
    /\ n = 0

\* main up to the first prompt: book = load_data()
Start ==
    /\ pc # "running"
    /\ pc' = "running"
    /\ book' = load_data(snapshot)
    /\ cmd' = NoLine
    /\ before' = book
    /\ today' = NoDate
    /\ response' = Printed(Returns("Welcome to the assistant bot!", book))
    /\ UNCHANGED <<snapshot, held, n>>

Close ==
    /\ Prompt
    /\ \E w \in {"close", "exit", "EXIT"} : Turn([command |-> w, args |-> <<>>], NoDate)

Hello ==
    /\ Prompt
    /\ \E w \in {"hello", "Hello"} : Turn([command |-> w, args |-> <<>>], NoDate)

Add ==
    /\ Prompt
    /\ \E args \in AddArgs : Turn([command |-> "add", args |-> args], NoDate)

Change ==
    /\ Prompt
    /\ \E args \in ChangeArgs : Turn([command |-> "change", args |-> args], NoDate)

ShowPhone ==
    /\ Prompt
    /\ \E args \in NameArgs : Turn([command |-> "phone", args |-> args], NoDate)

ShowAll ==
    /\ Prompt
    /\ Turn([command |-> "all", args |-> <<>>], NoDate)

AddBirthday ==
    /\ Prompt
    /\ \E args \in BirthdayArgs :
          Turn([command |-> "add-birthday", args |-> args], NoDate)

ShowBirthday ==
    /\ Prompt
    /\ \E args \in NameArgs :
          Turn([command |-> "show-birthday", args |-> args], NoDate)

Birthdays ==
    /\ Prompt
    /\ \E now \in Todays : Turn([command |-> "birthdays", args |-> <<>>], now)

\* a command word main does not know
Unknown ==
    /\ Prompt
    /\ \E args \in NameArgs : Turn([command |-> "remove", args |-> args], NoDate)

\* a line without any word
EmptyLine ==
    /\ Prompt
    /\ Turn([command |-> "", args |-> <<>>], NoDate)

Next ==
    \/ Start
    \/ Close
    \/ Hello
    \/ Add
    \/ Change
    \/ ShowPhone
    \/ ShowAll
    \/ AddBirthday
    \/ ShowBirthday
    \/ Birthdays
    \/ Unknown
    \/ EmptyLine

Spec == Init /\ [][Next]_vars

\* ------------------------------------------------------------------ claims

\* C1: the birthdays query returns exactly the records that have a birthday
\* whose date in today's year exists and lies 0..7 calendar days after
\* today's date (today included, 7 days ahead included, 8 days ahead and
\* past dates excluded, no wraparound), in Directory order.
C1_BirthdayWindow ==
    (pc = "running" /\ cmd.command = "birthdays") =>
        LET InWindow(record) ==
                /\ record.birthday # NoDate
                /\ ValidDate(today.year, record.birthday.month, record.birthday.day)
                /\ LET d == [year |-> today.year, month |-> record.birthday.month,
                             day |-> record.birthday.day]
                       delta == Ordinal(d) - Ordinal(today)
                   IN  0 <= delta /\ delta <= 7
            expected == SelectSeq(before, InWindow)
        IN  IF expected = <<>>
            THEN response.text = "No upcoming birthdays."
            ELSE /\ response.kind = "records"
                 /\ Len(response.records) = Len(expected)
                 /\ \A i \in 1..Len(expected) :
                        response.records[i].name = expected[i].name

\* C2: a successful add on a name already in the Directory appends the
\* phone to the end of that record's phone list and leaves the size of the
\* Directory and every other record unchanged; on a new name it appends one
\* record holding just that phone; the Directory never holds two records of
\* the same name.
C2_AddMerges ==
    /\ \A i, j \in 1..Len(book) : book[i].name = book[j].name => i = j
    /\ (cmd.command = "add" /\ response.text = "Contact added.") =>
          LET name == cmd.args[1]
              phone == cmd.args[2]
              known == { i \in 1..Len(before) : before[i].name = name }
          IN  IF known # {}
              THEN /\ Len(book) = Len(before)
                   /\ \A i \in 1..Len(before) :
                        IF i \in known
                        THEN /\ book[i].name = name
                             /\ book[i].birthday = before[i].birthday
                             /\ book[i].phones = before[i].phones \o <<phone>>
                        ELSE book[i] = before[i]
              ELSE /\ Len(book) = Len(before) + 1
                   /\ SubSeq(book, 1, Len(before)) = before
                   /\ book[Len(book)].name = name
                   /\ book[Len(book)].phones = <<phone>>

\* an add on a name that already held two phones, repeating the first one
C2_Witness ==
    /\ cmd.command = "add"
    /\ response.text = "Contact added."
    /\ \E i \in 1..Len(before) :
          /\ before[i].name = cmd.args[1]
          /\ Len(before[i].phones) = 2
          /\ book[i].phones[3] = book[i].phones[1]

\* C3: change on an existing contact with a new phone that is not exactly
\* ten digits answers "Phone number must be 10 digits" and changes nothing,
\* whether or not old_phone matches a stored phone.
C3_ChangeValidates ==
    (/\ cmd.command = "change"
     /\ Len(cmd.args) = 3
     /\ \E i \in 1..Len(before) : before[i].name = cmd.args[1]
     /\ ~(/\ Len(cmd.args[3]) = 10
          /\ \A k \in 1..Len(cmd.args[3]) :
                cmd.args[3][k] \in AsciiDigits \cup UnicodeDigits))
    => (response.text = "Phone number must be 10 digits" /\ book = before)

\* C4: change with a valid new phone on an existing contact: when no stored
\* phone equals old it answers not found and the Directory is unchanged;
\* otherwise only the first phone equal to old takes the new value, and the
\* length and order of the list, every other phone (later duplicates of old
\* included), the record's name and birthday and every other record are
\* unchanged.
C4_EditFirstMatch ==
    (/\ cmd.command = "change"
     /\ Len(cmd.args) = 3
     /\ \E i \in 1..Len(before) : before[i].name = cmd.args[1]
     /\ Len(cmd.args[3]) = 10
     /\ \A k \in 1..10 : cmd.args[3][k] \in AsciiDigits)
    => LET i == CHOOSE j \in 1..Len(before) : before[j].name = cmd.args[1]
           old == cmd.args[2]
           new == cmd.args[3]
           phones == before[i].phones
           matches == { k \in 1..Len(phones) : phones[k] = old }
       IN  IF matches = {}
           THEN response.text = "Phone number not found." /\ book = before
           ELSE /\ response.text = "Contact updated."
                /\ Len(book) = Len(before)
                /\ \A j \in 1..Len(before) : j # i => book[j] = before[j]
                /\ book[i].name = before[i].name
                /\ book[i].birthday = before[i].birthday
                /\ Len(book[i].phones) = Len(phones)
                /\ \A k \in 1..Len(phones) :
                      book[i].phones[k] =
                        IF k \in matches /\ \A m \in matches : k <= m
                        THEN new ELSE phones[k]

\* a change that replaced the first of two equal phones
C4_Witness ==
    /\ cmd.command = "change"
    /\ response.text = "Contact updated."
    /\ \E i \in 1..Len(before) :
          /\ Len(before[i].phones) = 2
          /\ before[i].phones[1] = before[i].phones[2]
          /\ book[i].phones[1] # book[i].phones[2]
          /\ book[i].phones[2] = before[i].phones[2]

\* C5: every phone stored in every record is exactly ten ASCII decimal
\* digits.
C5_PhonesAsciiDigits ==
    \A i \in 1..Len(book) : \A k \in 1..Len(book[i].phones) :
        /\ Len(book[i].phones[k]) = 10
        /\ \A c \in 1..Len(book[i].phones[k]) : book[i].phones[k][c] \in AsciiDigits

\* C6: a text that add-birthday accepts is the text show-birthday returns
\* for that contact, and a text that is not two-digit day, two-digit month
\* and four-digit year is answered "Invalid date format. Use DD.MM.YYYY".
C6_BirthdayRoundTrip ==
    (/\ cmd.command = "add-birthday"
     /\ Len(cmd.args) = 2
     /\ \E i \in 1..Len(before) : before[i].name = cmd.args[1])
    => LET s == cmd.args[2]
           shown == Printed(Dispatch("show-birthday", <<cmd.args[1]>>, book, NoDate))
           shaped == /\ Len(s) = 10
                     /\ s[3] = "." /\ s[6] = "."
                     /\ \A k \in {1, 2, 4, 5, 7, 8, 9, 10} : s[k] \in AsciiDigits
       IN  /\ response.text = "Birthday added." => shown.chars = s
           /\ ~shaped => response.text = "Invalid date format. Use DD.MM.YYYY"

\* C7: the birthdays command never answers with an error: it returns the
\* descriptions of the matching records or "No upcoming birthdays.".
C7_BirthdaysNeverFails ==
    (pc = "running" /\ cmd.command = "birthdays") =>
        /\ response.raised = "none"
        /\ response.kind = "records" \/ response.text = "No upcoming birthdays."

\* C8: every line other than close/exit gets a response and leaves the loop
\* running; the process ends only on close/exit, with the snapshot saved.
C8_NoInputIsFatal ==
    cmd # NoLine =>
        IF cmd.command \in {"close", "exit", "EXIT"}
        THEN pc = "closed" /\ snapshot.exists
        ELSE pc = "running" /\ response.kind # "none"

\* C9: a session starts with the Directory held at the latest close/exit
\* command (same names, phone lists and birthdays, in the same order), with
\* the empty Directory when there is no snapshot, and only close/exit
\* replaces the snapshot.
C9_SaveLoadRoundTrip ==
    /\ [](/\ (pc = "running" /\ cmd = NoLine) => book = held
          /\ (pc = "running" /\ cmd = NoLine /\ ~snapshot.exists) => book = <<>>)
    /\ [][snapshot' # snapshot => cmd'.command \in {"close", "exit", "EXIT"}]_vars

\* a session that starts with a saved contact with phones and a birthday
C9_Witness ==
    /\ pc = "running"
    /\ cmd = NoLine
    /\ snapshot.exists
    /\ \E i \in 1..Len(book) :
          book[i].phones # <<>> /\ book[i].birthday # NoDate

\* C10: a command answered with a failure message leaves the Directory as
\* it was, and no record of the Directory has an empty phone list.
C10_FailureChangesNothing ==
    /\ \A i \in 1..Len(book) : book[i].phones # <<>>
    /\ (\/ response.raised # "none" /\ response.kind = "message"
        \/ response.text \in {"Phone number not found.", "Invalid command."})
       => book = before

\* an add-birthday with an invalid date on a contact that has a birthday
C10_Witness ==
    /\ cmd.command = "add-birthday"
    /\ response.text = "Invalid date format. Use DD.MM.YYYY"
    /\ \E i \in 1..Len(before) :
          before[i].name = cmd.args[1] /\ before[i].birthday # NoDate

====
